---- MODULE Spec2Model ----
(***************************************************************************)
(* Model of src/main.py: the Kraken trailing-sell bot.  One polling cycle  *)
(* (KrakenTrailingSellBot.run_once) reconciles the exchange holdings with  *)
(* the ledger kept in a spreadsheet, one row per asset, and drives the     *)
(* stop-loss / arming / trailing take-profit exits.                        *)
(*                                                                         *)
(* Numbers.  The program computes percentages as floats and persists them  *)
(* through build_row's fmt, round(x, 10).  Here a percentage is an integer *)
(* number of hundredths of a percent (-2.5 % is -250), a float division is *)
(* rounded to the nearest hundredth, and fmt rounds to the nearest tenth   *)
(* of a percent (a multiple of 10), half to even: the persisted grid is    *)
(* coarser than the computation, as in the program.  Prices and balances   *)
(* are integers, which fmt leaves as they are.                             *)
(*                                                                         *)
(* A blank cell is the empty tuple <<>> and a filled optional cell (the    *)
(* columns CostBasis and RealizedPct) is the one-element tuple <<v>>.      *)
(***************************************************************************)
EXTENDS Integers, Sequences, FiniteSets, TLC

VARIABLES
    cfg,        \* the environment configuration: thresholds, DRY_RUN, poll interval
    sheet,      \* the worksheet's data rows; sheet[i] is spreadsheet row i + 1
    clock,      \* the number of cycles started; now_iso of the running cycle
    pc,         \* run_forever's position: idle, assets, missing, done, stopped,
                \* crashed
    holdings,   \* run_once's local: the filtered holdings of this cycle
    positions,  \* run_once's local: the ledger as read at the start of the cycle
    todo,       \* the held assets the first loop has still to process, in order
    gone,       \* the ledger assets the second loop has still to process, in order
    pre,        \* history: the worksheet as it was when the cycle started
    sells,      \* history: the calls of _place_market_sell made in this cycle
    fetched,    \* history: the outcome of _get_price per held asset in this cycle
    last,       \* history: the inputs of the last completed cycle, whether it
                \* requested a sell and the assets whose sell failed in it
    ev,         \* history: what the last step did
    botsold     \* history: the assets whose live sell order the exchange accepted
                \* and that have not been seen in the holdings since

vars == <<cfg, sheet, clock, pc, holdings, positions, todo, gone,
          pre, sells, fetched, last, ev, botsold>>

-----------------------------------------------------------------------------
(* Bounds and input sets *)

MaxCycles == 4

BASE_CURRENCY == "USD"

\* asset codes the exchange reports, in the order of its answer
AssetCodes == <<"XXBT", "XETH", "XBT.F", "ZUSD">>

\* self.asset_info: code -> altname; a code without an entry is its own altname
asset_info == [c \in {"XXBT", "XETH", "ZUSD"} |->
                 CASE c = "XXBT" -> "XBT" [] c = "XETH" -> "ETH" [] OTHER -> "USD"]

\* the altnames that contain a '.'
DottedAltnames == {"XBT.F"}

\* the balances the exchange may report for a code
BalanceChoices(c) ==
    CASE c = "XXBT" -> {0, 2}
      [] c = "XETH" -> {0, 3}
      [] c = "XBT.F" -> {0, 1}
      [] OTHER -> {7}

\* the last-trade prices the ticker may report for an altname
PriceChoices(altname) ==
    IF altname = "XBT" THEN {19500, 20000, 20400, 21093, 21100} ELSE {50}

Blank == <<>>

STATUSES == {"ACTIVE", "CLOSED", "CLOSED_EXTERNAL"}

-----------------------------------------------------------------------------
(* Configuration *)

FEE_BUFFER_PCT == 50

DEFAULT_STOP_LOSS_PCT == -300
DEFAULT_ARM_THRESHOLD_PCT == 500
DEFAULT_TRAILING_DROP_PCT == 300

DEFAULT_POLL_INTERVAL_SECONDS == 60

\* the values POLL_INTERVAL_SECONDS is given: the default and a negative one
PollIntervals == {DEFAULT_POLL_INTERVAL_SECONDS, -1}

DefaultThresholds(c) ==
    /\ c.STOP_LOSS_PCT = DEFAULT_STOP_LOSS_PCT
    /\ c.ARM_THRESHOLD_PCT = DEFAULT_ARM_THRESHOLD_PCT
    /\ c.TRAILING_DROP_PCT = DEFAULT_TRAILING_DROP_PCT

\* get_env_float/get_env_bool with no threshold set in the environment:
\* the default thresholds, with DRY_RUN set or not, and the poll interval
Configs ==
    { [STOP_LOSS_PCT |-> DEFAULT_STOP_LOSS_PCT,
       ARM_THRESHOLD_PCT |-> DEFAULT_ARM_THRESHOLD_PCT,
       TRAILING_DROP_PCT |-> DEFAULT_TRAILING_DROP_PCT,
       dry_run |-> d,
       poll_interval |-> s] : d \in BOOLEAN, s \in PollIntervals }

-----------------------------------------------------------------------------
(* Arithmetic *)

Max(a, b) == IF a >= b THEN a ELSE b

\* n / d for d > 0, to the nearest integer, half to even
RoundDiv(n, d) ==
    LET q == n \div d
        r == n % d
    IN  IF 2 * r < d THEN q
        ELSE IF 2 * r > d THEN q + 1
        ELSE IF q % 2 = 0 THEN q ELSE q + 1

\* build_row.fmt on a percentage: round(x, 10), here to a tenth of a percent
fmt(x) == 10 * RoundDiv(x, 10)

\* float(cell) if str(cell).strip() else 0.0
FloatOrZero(cell) == IF cell = Blank THEN 0 ELSE cell[1]

\* str(armed_raw).strip().lower() in ("true", "1", "yes", "y")
ParseArmed(cell) == cell \in {"TRUE", "true", "1", "yes", "y"}

\* (rec.get("Status") or "ACTIVE").upper()
StatusOf(rec) == IF rec.Status = "" THEN "ACTIVE" ELSE rec.Status

-----------------------------------------------------------------------------
(* Exchange helpers *)

\* _get_holdings: the balances (code -> balance) keyed by altname, without the
\* zero balances, the base and fiat currencies, KFEE and the dotted altnames
Altname(code) == IF code \in DOMAIN asset_info THEN asset_info[code] ELSE code

Skipped(code, balance) ==
    \/ balance <= 0
    \/ Altname(code) \in {BASE_CURRENCY, "USD", "EUR"}
    \/ Altname(code) = "KFEE"
    \/ Altname(code) \in DottedAltnames

GetHoldings(balances) ==
    LET kept == {c \in DOMAIN balances : ~Skipped(c, balances[c])}
    IN  [a \in {Altname(c) : c \in kept} |->
            LET c == CHOOSE k \in kept : Altname(k) = a
            IN  [asset_code |-> c, balance |-> balances[c]]]

\* f"{altname}{self.base_currency}"
PairOf(altname) == altname \o BASE_CURRENCY

\* _get_price: a quote, or one of the two failures run_once catches
Quote(p) == [err |-> "", price |-> p]
PriceOutcomes(altname) ==
    {Quote(p) : p \in PriceChoices(altname)}
    \cup {[err |-> e, price |-> 0] : e \in {"KrakenUnknownAssetError", "Exception"}}

\* what the history keeps of a failed fetch: that it failed
Failed == [err |-> "failed", price |-> 0]

\* what trade.create_order may do
OrderOutcomes == {"ok", "KrakenInvalidArgumentsError", "Exception"}

\* what it does in this pass: it is called only for a sell outside dry run
OrdersPlaced(dry_run, selling) ==
    IF selling /\ ~dry_run THEN OrderOutcomes ELSE {"none"}

\* _place_market_sell: True in dry run without placing anything; otherwise True
\* when the order was accepted and False on either exception
PlaceMarketSell(dry_run, outcome) ==
    IF dry_run THEN TRUE
    ELSE IF outcome = "ok" THEN TRUE
    ELSE FALSE

-----------------------------------------------------------------------------
(* Sheet helpers *)

\* the order in which _read_positions first meets each asset
RECURSIVE KeysFrom(_, _, _)
KeysFrom(sh, i, seen) ==
    IF i > Len(sh) THEN <<>>
    ELSE IF sh[i].Asset = "" \/ sh[i].Asset \in seen THEN KeysFrom(sh, i + 1, seen)
    ELSE <<sh[i].Asset>> \o KeysFrom(sh, i + 1, seen \cup {sh[i].Asset})

PositionKeys(sh) == KeysFrom(sh, 1, {})

\* _read_positions: asset -> (row, data); a later row of the same asset wins;
\* record idx (from 0) is spreadsheet row idx + 2, which is sheet[idx + 1]
ReadPositions(sh) ==
    [a \in {sh[i].Asset : i \in 1..Len(sh)} \ {""} |->
        LET i == CHOOSE j \in 1..Len(sh) :
                    /\ sh[j].Asset = a
                    /\ \A k \in 1..Len(sh) : sh[k].Asset = a => k <= j
        IN  [row |-> i + 1, data |-> sh[i]]]

\* _write_row: overwrite columns A..L of spreadsheet row `row`
WriteRow(sh, row, values) == [sh EXCEPT ![row - 1] = values]

\* _append_row: write at the row after the last used cell of column A
\* (the header is row 1)
AppendRow(sh, values) ==
    LET last_row == 1 + Len(sh)
        next_row == last_row + 1
    IN  [i \in 1..(next_row - 1) |-> IF i = next_row - 1 THEN values ELSE sh[i]]

\* build_row
BuildRow(asset_alt, asset_code, pair, position_size, cost_basis, current_price, unreal_pct, ath_unreal_pct, armed, status, realized_pct, last_updated) ==
    [Asset |-> asset_alt,
     KrakenAssetCode |-> asset_code,
     Pair |-> pair,
     PositionSize |-> position_size,
     CostBasis |-> cost_basis,
     CurrentPrice |-> current_price,
     UnrealizedPct |-> fmt(unreal_pct),
     ATHUnrealizedPct |-> fmt(ath_unreal_pct),
     Armed |-> IF armed THEN "TRUE" ELSE "FALSE",
     Status |-> status,
     RealizedPct |-> IF realized_pct = Blank THEN Blank ELSE <<fmt(realized_pct[1])>>,
     LastUpdated |-> last_updated]

-----------------------------------------------------------------------------
(* run_once, per held asset: lines 373-488 *)

\* the reactivation of a row that is not ACTIVE: a fresh campaign on its row
Reactivated(row, price) ==
    [row |-> row, status |-> "ACTIVE",
     cost_basis_value |-> price, cost_basis_cell |-> <<price>>,
     ath_unreal |-> 0, armed |-> FALSE, realized_pct |-> Blank]

\* mutant of Carried: a blank CostBasis starts the record over, ATH and Armed too
CarriedResetsOnBlank(row, rec, price) ==
    [row |-> row, status |-> "ACTIVE",
     cost_basis_value |-> IF rec.CostBasis # Blank THEN rec.CostBasis[1] ELSE price,
     cost_basis_cell |-> IF rec.CostBasis # Blank THEN rec.CostBasis ELSE <<price>>,
     ath_unreal |-> IF rec.CostBasis # Blank THEN rec.ATHUnrealizedPct ELSE 0,
     armed |-> rec.CostBasis # Blank /\ ParseArmed(rec.Armed),
     realized_pct |-> rec.RealizedPct]

\* mutant of Carried: the cost basis is read from the CurrentPrice column
CarriedFromCurrentPrice(row, rec, price) ==
    [row |-> row, status |-> "ACTIVE",
     cost_basis_value |-> rec.CurrentPrice,
     cost_basis_cell |-> <<rec.CurrentPrice>>,
     ath_unreal |-> rec.ATHUnrealizedPct,
     armed |-> ParseArmed(rec.Armed),
     realized_pct |-> rec.RealizedPct]

\* an ACTIVE row: CostBasis carried over, or the price when the cell is blank;
\* ATH, Armed and RealizedPct as the row holds them
Carried(row, rec, price) ==
    [row |-> row, status |-> "ACTIVE",
     cost_basis_value |-> IF rec.CostBasis # Blank THEN rec.CostBasis[1] ELSE price,
     cost_basis_cell |-> IF rec.CostBasis # Blank THEN rec.CostBasis ELSE <<price>>,
     ath_unreal |-> rec.ATHUnrealizedPct,
     armed |-> ParseArmed(rec.Armed),
     realized_pct |-> rec.RealizedPct]

\* mutant of Fresh: the CostBasis cell of a new asset is left blank
FreshWithoutBasis(price) ==
    [row |-> 0, status |-> "ACTIVE",
     cost_basis_value |-> price, cost_basis_cell |-> Blank,
     ath_unreal |-> 0, armed |-> FALSE, realized_pct |-> Blank]

\* a new asset: no row yet (row None is 0)
Fresh(price) ==
    [row |-> 0, status |-> "ACTIVE",
     cost_basis_value |-> price, cost_basis_cell |-> <<price>>,
     ath_unreal |-> 0, armed |-> FALSE, realized_pct |-> Blank]

\* mutant of LoadRow: a row that is not ACTIVE is carried over like an ACTIVE one
LoadRowWithoutReactivation(altname, price, pos) ==
    IF altname \in DOMAIN pos
    THEN Carried(pos[altname].row, pos[altname].data, price)
    ELSE Fresh(price)

\* "Load existing sheet row or create defaults"
LoadRow(altname, price, pos) ==
    IF altname \in DOMAIN pos
    THEN IF StatusOf(pos[altname].data) # "ACTIVE"
         THEN Reactivated(pos[altname].row, price)
         ELSE Carried(pos[altname].row, pos[altname].data, price)
    ELSE Fresh(price)

\* the gross unrealized percentage, in hundredths of a percent
UnrealPct(price, cost_basis_value) ==
    IF cost_basis_value = 0 THEN 0
    ELSE RoundDiv((price - cost_basis_value) * 10000, cost_basis_value)

\* mutant of UpdateAth: the fresh percentage overwrites the carried maximum
UpdateAthOverwrites(ath_unreal, unreal_pct) == unreal_pct

\* "Update all-time-high unrealized"
UpdateAth(ath_unreal, unreal_pct) == Max(ath_unreal, unreal_pct)

\* mutant of TrailingHit: the boundary is left out
TrailingHitStrict(c, ath_unreal, unreal_pct) ==
    (ath_unreal - unreal_pct) > (c.TRAILING_DROP_PCT + FEE_BUFFER_PCT)

\* the trailing take-profit test of an armed position
TrailingHit(c, ath_unreal, unreal_pct) ==
    (ath_unreal - unreal_pct) >= (c.TRAILING_DROP_PCT + FEE_BUFFER_PCT)

\* mutant of StopLossHit: the boundary is left out
StopLossHitStrict(c, unreal_pct) == unreal_pct < c.STOP_LOSS_PCT + FEE_BUFFER_PCT

\* the stop-loss test of an unarmed position
StopLossHit(c, unreal_pct) == unreal_pct <= c.STOP_LOSS_PCT + FEE_BUFFER_PCT

\* the arming test of an unarmed position
ArmHit(c, unreal_pct) == unreal_pct >= c.ARM_THRESHOLD_PCT + FEE_BUFFER_PCT

\* mutant of Decide: the armed flag of an armed position is taken from the
\* arming test of this cycle instead of being kept
DecideRearms(c, status, armed, ath_unreal, unreal_pct) ==
    IF status = "ACTIVE"
    THEN IF armed
         THEN [sell_reason |-> IF TrailingHit(c, ath_unreal, unreal_pct)
                               THEN "TRAILING_TAKE_PROFIT" ELSE "",
               armed |-> ArmHit(c, unreal_pct)]
         ELSE IF StopLossHit(c, unreal_pct)
              THEN [sell_reason |-> "STOP_LOSS", armed |-> armed]
              ELSE [sell_reason |-> "", armed |-> ArmHit(c, unreal_pct)]
    ELSE [sell_reason |-> "", armed |-> armed]

\* the exit decision: the close reason ("" is None) and the new armed flag
Decide(c, status, armed, ath_unreal, unreal_pct) ==
    IF status = "ACTIVE"
    THEN IF armed
         THEN [sell_reason |-> IF TrailingHit(c, ath_unreal, unreal_pct)
                               THEN "TRAILING_TAKE_PROFIT" ELSE "",
               armed |-> armed]
         ELSE IF StopLossHit(c, unreal_pct)
              THEN [sell_reason |-> "STOP_LOSS", armed |-> armed]
              ELSE [sell_reason |-> "", armed |-> ArmHit(c, unreal_pct)]
    ELSE [sell_reason |-> "", armed |-> armed]

\* mutant of Closed: the CostBasis cell of the record is kept
ClosedKeepsBasis(balance, unreal_pct, ld) ==
    [status |-> "CLOSED", balance |-> 0, unreal_pct |-> 0,
     cost_basis_cell |-> ld.cost_basis_cell,
     realized_pct |-> <<unreal_pct - FEE_BUFFER_PCT>>]

\* mutant of Closed: the realized percentage is logged without the fee buffer
ClosedGross(balance, unreal_pct, ld) ==
    [status |-> "CLOSED", balance |-> 0, unreal_pct |-> 0,
     cost_basis_cell |-> Blank,
     realized_pct |-> <<unreal_pct>>]

\* the row's values after a sell that reported success
Closed(balance, unreal_pct, ld) ==
    [status |-> "CLOSED", balance |-> 0, unreal_pct |-> 0,
     cost_basis_cell |-> Blank,
     realized_pct |-> <<unreal_pct - FEE_BUFFER_PCT>>]

\* the row's values when no sell was made or the sell failed
LeftActive(balance, unreal_pct, ld) ==
    [status |-> ld.status, balance |-> balance, unreal_pct |-> unreal_pct,
     cost_basis_cell |-> ld.cost_basis_cell,
     realized_pct |-> ld.realized_pct]

\* mutant of WantsSell: the close reason is not looked at
WantsSellWithoutReason(sell_reason, balance) == balance > 0

\* whether the loop body calls _place_market_sell
WantsSell(sell_reason, balance) == sell_reason # "" /\ balance > 0

\* one pass of the first loop's body for a fetched price, up to the decision:
\* the locals it computes and whether it goes on to sell
Assess(c, altname, hinfo, price, pos) ==
    LET ld == LoadRow(altname, price, pos)
        unreal_pct == UnrealPct(price, ld.cost_basis_value)
        ath_unreal == UpdateAth(ld.ath_unreal, unreal_pct)
        d == Decide(c, ld.status, ld.armed, ath_unreal, unreal_pct)
    IN  [row |-> ld.row,
         loaded |-> ld,
         unreal_pct |-> unreal_pct,
         ath_unreal |-> ath_unreal,
         armed |-> d.armed,
         sell_reason |-> d.sell_reason,
         selling |-> WantsSell(d.sell_reason, hinfo.balance)]

\* mutant of Settle: the row is closed whenever a sell was attempted, whatever
\* _place_market_sell returned
SettleIgnoresResult(c, a, altname, hinfo, price, order, now_iso) ==
    LET sold_ok == a.selling /\ PlaceMarketSell(c.dry_run, order)
        fin == IF a.selling THEN Closed(hinfo.balance, a.unreal_pct, a.loaded)
               ELSE LeftActive(hinfo.balance, a.unreal_pct, a.loaded)
    IN  [sold_ok |-> sold_ok,
         values |-> BuildRow(altname, hinfo.asset_code, PairOf(altname),
                             fin.balance, fin.cost_basis_cell, price,
                             IF fin.status = "ACTIVE" THEN fin.unreal_pct ELSE 0,
                             a.ath_unreal, a.armed, fin.status, fin.realized_pct,
                             now_iso)]

\* the rest of the body: the sell, when one is made, and the row that is built
Settle(c, a, altname, hinfo, price, order, now_iso) ==
    LET sold_ok == a.selling /\ PlaceMarketSell(c.dry_run, order)
        fin == IF sold_ok THEN Closed(hinfo.balance, a.unreal_pct, a.loaded)
               ELSE LeftActive(hinfo.balance, a.unreal_pct, a.loaded)
    IN  [sold_ok |-> sold_ok,
         values |-> BuildRow(altname, hinfo.asset_code, PairOf(altname),
                             fin.balance, fin.cost_basis_cell, price,
                             IF fin.status = "ACTIVE" THEN fin.unreal_pct ELSE 0,
                             a.ath_unreal, a.armed, fin.status, fin.realized_pct,
                             now_iso)]

\* mutant of Persist: the row is appended whether the asset has one or not
PersistAlwaysAppends(sh, row, values) == AppendRow(sh, values)

\* "if row is None: _append_row else: _write_row"
Persist(sh, row, values) ==
    IF row = 0 THEN AppendRow(sh, values) ELSE WriteRow(sh, row, values)

-----------------------------------------------------------------------------
(* run_once, per ledger asset absent from the holdings: lines 490-531 *)

\* mutant of Disappeared: the status of the position is not looked at
DisappearedWhateverStatus(altname, pdata, active_altnames) ==
    altname \notin active_altnames

\* whether the second loop writes this position
Disappeared(altname, pdata, active_altnames) ==
    /\ altname \notin active_altnames
    /\ StatusOf(pdata.data) = "ACTIVE"

\* the positions the second loop writes, in the ledger's order
Pending(pos, keys, active_altnames) ==
    SelectSeq(keys, LAMBDA a : Disappeared(a, pos[a], active_altnames))

\* mutant of ExternalRow: the CostBasis cell is written back instead of cleared
ExternalRowKeepsBasis(altname, rec, now_iso) ==
    BuildRow(altname, rec.KrakenAssetCode, rec.Pair,
             0, rec.CostBasis, rec.CurrentPrice,
             0, rec.ATHUnrealizedPct, ParseArmed(rec.Armed),
             "CLOSED_EXTERNAL", Blank, now_iso)

\* the CLOSED_EXTERNAL row built for a position that disappeared
ExternalRow(altname, rec, now_iso) ==
    BuildRow(altname, rec.KrakenAssetCode, rec.Pair,
             0, Blank, rec.CurrentPrice,
             0, rec.ATHUnrealizedPct, ParseArmed(rec.Armed),
             "CLOSED_EXTERNAL", Blank, now_iso)

-----------------------------------------------------------------------------
(* The state machine *)

NoEv ==
    [kind |-> "init", asset |-> "", row |-> 0, price |-> 0,
     cost_basis |-> 0, unreal |-> 0, ath_in |-> 0, ath |-> 0,
     armed_in |-> FALSE, armed |-> FALSE,
     reason |-> "", sold |-> "", store |-> ""]

NoCycle ==
    [valid |-> FALSE, hold |-> <<>>, px |-> <<>>, quiet |-> FALSE, failed |-> {}]

\* what the ledger store may do on a write, with the stop signal as the third:
\* accept it, raise, or be cut short by KeyboardInterrupt before it
StoreOutcomes == {"ok", "raise", "interrupt"}

\* the answers get_balances may give
BalanceAnswers ==
    {[c \in {AssetCodes[i] : i \in 1..Len(AssetCodes)} |->
        CASE c = AssetCodes[1] -> b1 [] c = AssetCodes[2] -> b2
          [] c = AssetCodes[3] -> b3 [] OTHER -> b4] :
        b1 \in BalanceChoices(AssetCodes[1]), b2 \in BalanceChoices(AssetCodes[2]),
        b3 \in BalanceChoices(AssetCodes[3]), b4 \in BalanceChoices(AssetCodes[4])}

\* the held altnames in the order of the exchange's answer
HeldOrder(h) ==
    LET alts == [i \in 1..Len(AssetCodes) |-> Altname(AssetCodes[i])]
    IN  SelectSeq(alts, LAMBDA a : a \in DOMAIN h)

\* where run_once stands once the first loop has `left` to do and the second `ext`
After(left, ext) ==
    IF left # <<>> THEN "assets" ELSE IF ext # <<>> THEN "missing" ELSE "done"

\* time.sleep(self.poll_interval) at the end of run_forever's loop body, outside
\* its try: it raises ValueError on a negative interval, which ends run_forever
AfterSleep(c) == IF c.poll_interval < 0 THEN "crashed" ELSE "idle"

Init ==
    /\ cfg \in Configs
    /\ sheet = <<>>
    /\ clock = 0
    /\ pc = "idle"
    /\ holdings = <<>>
    /\ positions = <<>>
    /\ todo = <<>>
    /\ gone = <<>>
    /\ pre = <<>>
    /\ sells = <<>>
    /\ fetched = <<>>
    /\ last = NoCycle
    /\ ev = NoEv
    /\ botsold = {}

\* run_forever calls run_once, which reads the holdings and the ledger
StartCycle ==
    /\ pc = "idle"
    /\ clock < MaxCycles
    /\ \E balances \in BalanceAnswers :
         LET h == GetHoldings(balances)
             pos == ReadPositions(sheet)
             ext == Pending(pos, PositionKeys(sheet), DOMAIN h)
             order == HeldOrder(h)
         IN    /\ holdings' = h
               /\ positions' = pos
               /\ todo' = order
               /\ gone' = ext
               /\ pc' = After(order, ext)
               /\ botsold' = botsold \ DOMAIN h
    /\ clock' = clock + 1
    /\ pre' = sheet
    /\ sells' = <<>>
    /\ fetched' = <<>>
    /\ ev' = [NoEv EXCEPT !.kind = "start"]
    /\ UNCHANGED <<cfg, sheet, last>>

\* get_balances or the ledger read raises: run_forever reports it and sleeps
CycleFails ==
    /\ pc = "idle"
    /\ clock < MaxCycles
    /\ last' = NoCycle
    /\ sells' = <<>>
    /\ pc' = AfterSleep(cfg)
    /\ ev' = [NoEv EXCEPT !.kind = "abandoned"]
    /\ UNCHANGED <<cfg, sheet, clock, holdings, positions, todo, gone, pre, fetched,
                   botsold>>

\* the locals of a cycle that an exception ended
Unwind ==
    /\ holdings' = <<>>
    /\ positions' = <<>>
    /\ todo' = <<>>
    /\ gone' = <<>>
    /\ pre' = <<>>
    /\ fetched' = <<>>
    /\ sells' = <<>>
    /\ last' = NoCycle

\* an exception leaves run_once and run_forever reports it and sleeps
Abandon == pc' = AfterSleep(cfg) /\ Unwind

\* KeyboardInterrupt leaves run_once and run_forever re-raises it
Stop == pc' = "stopped" /\ Unwind

\* what the history keeps of a step that an exception or the stop signal ended
Cut(kind, altname, row, reason, sold, store) ==
    [NoEv EXCEPT !.kind = kind, !.asset = altname, !.row = row,
                 !.reason = reason, !.sold = sold, !.store = store]

\* mutant of Continue: the loop is left instead of going on
ContinueAsBreak(left) == <<>>

\* `continue` after a failed fetch: what the first loop still has to do
Continue(left) == Tail(left)

\* one pass of the first loop: fetch the price, evaluate, sell, persist
ProcessAsset ==
    /\ pc = "assets"
    /\ LET altname == Head(todo)
           hinfo == holdings[altname]
       IN  \E quote \in PriceOutcomes(altname) :
             IF quote.err # ""
             THEN /\ todo' = Continue(todo)
                  /\ pc' = After(Continue(todo), gone)
                  /\ fetched' = (altname :> Failed) @@ fetched
                  /\ ev' = [NoEv EXCEPT !.kind = "skip", !.asset = altname]
                  /\ UNCHANGED <<sheet, sells, holdings, positions, gone, pre, last,
                                 botsold>>
             ELSE LET a == Assess(cfg, altname, hinfo, quote.price, positions)
                  IN  \E order \in OrdersPlaced(cfg.dry_run, a.selling),
                         store \in StoreOutcomes :
                        LET e == Settle(cfg, a, altname, hinfo, quote.price,
                                        order, clock)
                            sold == IF ~a.selling THEN ""
                                    ELSE IF e.sold_ok THEN "ok" ELSE "failed"
                            owed == IF sold = "ok" /\ ~cfg.dry_run
                                    THEN botsold \cup {altname} ELSE botsold
                        IN  CASE store = "ok" ->
                                   /\ sheet' = Persist(sheet, a.row, e.values)
                                   /\ sells' =
                                        IF a.selling
                                        THEN Append(sells, [asset |-> altname,
                                                            volume |-> hinfo.balance,
                                                            reason |-> a.sell_reason,
                                                            ok |-> e.sold_ok])
                                        ELSE sells
                                   /\ todo' = Tail(todo)
                                   /\ pc' = After(Tail(todo), gone)
                                   /\ fetched' = (altname :> quote) @@ fetched
                                   /\ ev' = [NoEv EXCEPT
                                               !.kind = "asset", !.asset = altname,
                                               !.row = a.row, !.price = quote.price,
                                               !.cost_basis = a.loaded.cost_basis_value,
                                               !.unreal = a.unreal_pct,
                                               !.ath_in = a.loaded.ath_unreal,
                                               !.ath = a.ath_unreal,
                                               !.armed_in = a.loaded.armed,
                                               !.armed = a.armed,
                                               !.reason = a.sell_reason,
                                               !.sold = sold, !.store = store]
                                   /\ UNCHANGED <<holdings, positions, gone, pre, last,
                                                  botsold>>
                              [] store = "raise" ->
                                   /\ Abandon
                                   /\ ev' = Cut("asset", altname, a.row,
                                                a.sell_reason, sold, store)
                                   /\ botsold' = owed
                                   /\ UNCHANGED sheet
                              [] OTHER ->
                                   /\ Stop
                                   /\ ev' = Cut("asset", altname, a.row,
                                                a.sell_reason, sold, store)
                                   /\ botsold' = owed
                                   /\ UNCHANGED sheet
    /\ UNCHANGED <<cfg, clock>>

\* one written pass of the second loop: a position that disappeared
MarkExternal ==
    /\ pc = "missing"
    /\ LET altname == Head(gone)
           pdata == positions[altname]
       IN  \E store \in StoreOutcomes :
             /\ ev' = [NoEv EXCEPT !.kind = "external", !.asset = altname,
                                   !.row = pdata.row, !.store = store]
             /\ CASE store = "ok" ->
                       /\ sheet' = WriteRow(sheet, pdata.row,
                                            ExternalRow(altname, pdata.data, clock))
                       /\ gone' = Tail(gone)
                       /\ pc' = After(<<>>, Tail(gone))
                       /\ UNCHANGED <<holdings, positions, todo, pre, fetched,
                                      sells, last>>
                  [] store = "raise" ->
                       /\ Abandon
                       /\ UNCHANGED sheet
                  [] OTHER ->
                       /\ Stop
                       /\ UNCHANGED sheet
    /\ UNCHANGED <<cfg, clock, botsold>>

\* run_once returns and run_forever sleeps
EndCycle ==
    /\ pc = "done"
    /\ pc' = AfterSleep(cfg)
    /\ last' = [valid |-> TRUE, hold |-> holdings, px |-> fetched,
                 quiet |-> sells = <<>>,
                 failed |-> {sells[k].asset : k \in {j \in 1..Len(sells) : ~sells[j].ok}}]
    /\ holdings' = <<>>
    /\ positions' = <<>>
    /\ todo' = <<>>
    /\ gone' = <<>>
    /\ pre' = <<>>
    /\ sells' = <<>>
    /\ fetched' = <<>>
    /\ ev' = [NoEv EXCEPT !.kind = "end"]
    /\ UNCHANGED <<cfg, sheet, clock, botsold>>

\* KeyboardInterrupt between two steps, or during the sleep: run_forever re-raises
Interrupt ==
    /\ pc \in {"idle", "assets", "missing", "done"}
    /\ Stop
    /\ ev' = [NoEv EXCEPT !.kind = "interrupt"]
    /\ UNCHANGED <<cfg, sheet, clock, botsold>>

\* the owner of the sheet blanks the CostBasis cell of an ACTIVE row between cycles
ManualClearCostBasis ==
    /\ pc = "idle"
    /\ \E i \in 1..Len(sheet) :
         /\ StatusOf(sheet[i]) = "ACTIVE"
         /\ sheet[i].CostBasis # Blank
         /\ sheet' = [sheet EXCEPT ![i].CostBasis = Blank]
    /\ last' = NoCycle
    /\ ev' = [NoEv EXCEPT !.kind = "edit"]
    /\ UNCHANGED <<cfg, clock, pc, holdings, positions, todo, gone, pre, sells, fetched,
                   botsold>>

Next ==
    \/ StartCycle
    \/ CycleFails
    \/ ProcessAsset
    \/ MarkExternal
    \/ EndCycle
    \/ Interrupt
    \/ ManualClearCostBasis

Spec == Init /\ [][Next]_vars

-----------------------------------------------------------------------------
(* Vocabulary of the properties *)

Rows(sh) == 1..Len(sh)

ClosedStatuses == {"CLOSED", "CLOSED_EXTERNAL"}

\* the rows of the worksheet that hold asset a
RowsOf(sh, a) == {i \in Rows(sh) : sh[i].Asset = a}

\* the row of the asset the last step processed
EvRow == sheet[CHOOSE i \in RowsOf(sheet, ev.asset) : TRUE]

\* the last step was a pass of the first loop that fetched a price and persisted
Processed == ev.kind = "asset" /\ ev.store = "ok"

\* run_once has done all its work and is about to return
CycleDone == pc = "done"

\* the asset's fetch failed in this cycle
FetchFailed(a) == a \in DOMAIN fetched /\ fetched[a].err # ""

\* the sells requested for asset a in this cycle
SellsOf(a) == {k \in 1..Len(sells) : sells[k].asset = a}

\* a row without its LastUpdated cell
Undated(sh) == [i \in Rows(sh) |-> [sh[i] EXCEPT !.LastUpdated = 0]]

-----------------------------------------------------------------------------
(* Properties *)

\* C1: once a row has been persisted with Armed = TRUE, no step persists it with
\* Armed = FALSE while it stays in its campaign: Armed goes from TRUE to FALSE
\* only in a pass of the first loop that reactivates that row, whose status was
\* CLOSED or CLOSED_EXTERNAL.
C1_ArmedStaysWithinCampaign ==
    [][\A i \in Rows(sheet) :
          (sheet[i].Armed = "TRUE" /\ sheet'[i].Armed = "FALSE")
          => /\ sheet[i].Status \in ClosedStatuses
             /\ ev'.kind = "asset"
             /\ ev'.asset = sheet[i].Asset
             /\ ev'.row = i + 1]_vars

\* an armed ACTIVE row has gone through a further cycle and is still armed
C1_Witness ==
    /\ Processed
    /\ ev.armed_in
    /\ \E i \in RowsOf(pre, ev.asset) :
         /\ pre[i].Status = "ACTIVE"
         /\ pre[i].Armed = "TRUE"
         /\ sheet[i].Armed = "TRUE"

\* the ATH carried into the evaluation of asset a: that of its ACTIVE row, and
\* 0 for a new or a reactivated record
CarriedAth(a) ==
    IF \E i \in RowsOf(pre, a) : pre[i].Status = "ACTIVE"
    THEN pre[CHOOSE i \in RowsOf(pre, a) : TRUE].ATHUnrealizedPct
    ELSE 0

C2_AthCoversCycle ==
    /\ \A i \in Rows(sheet) :
         sheet[i].Status = "ACTIVE"
         => sheet[i].ATHUnrealizedPct >= sheet[i].UnrealizedPct
    /\ Processed
       => /\ EvRow.ATHUnrealizedPct >= CarriedAth(ev.asset)
          /\ EvRow.ATHUnrealizedPct >= fmt(ev.unreal)

\* C2: the ATHUnrealizedPct persisted for a processed asset is >= the ATH the
\* record carried into the cycle (0 for a new or reactivated record) and >= the
\* unrealized percent computed in the cycle, as serialized; every ACTIVE row has
\* ATHUnrealizedPct >= UnrealizedPct; and no step lowers the ATH of an ACTIVE row.
C2_AthIsRunningMaximum ==
    /\ []C2_AthCoversCycle
    /\ [][\A i \in Rows(sheet) :
            sheet[i].Status = "ACTIVE"
            => sheet'[i].ATHUnrealizedPct >= sheet[i].ATHUnrealizedPct]_vars

\* a processed ACTIVE row whose carried ATH is above the percentage of the cycle
C2_Witness ==
    /\ Processed
    /\ CarriedAth(ev.asset) > 0
    /\ ev.unreal < CarriedAth(ev.asset)
    /\ EvRow.Status = "ACTIVE"

\* C3: when a close reason is raised and the sell reports success, the row
\* persisted in that pass has Status = CLOSED, PositionSize = 0, UnrealizedPct = 0,
\* a blank CostBasis, and RealizedPct = the unrealized percent computed in that
\* pass minus the fee buffer (as serialized).
C3_SuccessfulSellCloses ==
    (Processed /\ ev.reason # "" /\ ev.sold = "ok")
    => /\ EvRow.Status = "CLOSED"
       /\ EvRow.PositionSize = 0
       /\ EvRow.UnrealizedPct = 0
       /\ EvRow.CostBasis = Blank
       /\ EvRow.RealizedPct = <<fmt(ev.unreal - FEE_BUFFER_PCT)>>

\* a live trailing take-profit sell that succeeded
C3_Witness ==
    /\ Processed
    /\ ev.reason = "TRAILING_TAKE_PROFIT"
    /\ ev.sold = "ok"
    /\ ~cfg.dry_run

\* C4: when a close reason is raised and the sell reports failure, the row
\* persisted in that pass keeps Status = ACTIVE, the CostBasis of the record and
\* the full PositionSize, has no RealizedPct, and carries the unrealized percent,
\* ATH and Armed computed in that pass; the cycle goes on.
C4_FailedSellLeavesActive ==
    (ev.kind = "asset" /\ ev.reason # "" /\ ev.sold = "failed" /\ ev.store = "ok")
    => /\ EvRow.Status = "ACTIVE"
       /\ EvRow.CostBasis = <<ev.cost_basis>>
       /\ \A i \in RowsOf(pre, ev.asset) :
            pre[i].CostBasis # Blank => EvRow.CostBasis = pre[i].CostBasis
       /\ EvRow.PositionSize = holdings[ev.asset].balance
       /\ EvRow.PositionSize > 0
       /\ EvRow.RealizedPct = Blank
       /\ EvRow.UnrealizedPct = fmt(ev.unreal)
       /\ EvRow.ATHUnrealizedPct = fmt(ev.ath)
       /\ EvRow.Armed = (IF ev.armed THEN "TRUE" ELSE "FALSE")
       /\ pc \in {"assets", "missing", "done"}

\* a stop-loss sell that the exchange refused
C4_Witness ==
    /\ Processed
    /\ ev.reason = "STOP_LOSS"
    /\ ev.sold = "failed"

\* C5: when a cycle has run, each row that was ACTIVE at its start and whose
\* asset is absent from the filtered holdings is CLOSED_EXTERNAL with
\* PositionSize = 0, UnrealizedPct = 0, blank CostBasis and RealizedPct and the
\* cycle's timestamp; every other cell of the row is as it was.
C5_DisappearedIsClosedExternal ==
    CycleDone
    => \A i \in Rows(pre) :
         (StatusOf(pre[i]) = "ACTIVE" /\ pre[i].Asset \notin DOMAIN holdings)
         => sheet[i] = [pre[i] EXCEPT !.Status = "CLOSED_EXTERNAL",
                                      !.PositionSize = 0,
                                      !.UnrealizedPct = 0,
                                      !.CostBasis = Blank,
                                      !.RealizedPct = Blank,
                                      !.LastUpdated = clock]

\* an armed ACTIVE row with a positive ATH whose asset left the holdings
C5_Witness ==
    /\ CycleDone
    /\ \E i \in Rows(pre) :
         /\ pre[i].Status = "ACTIVE"
         /\ pre[i].Asset \notin DOMAIN holdings
         /\ pre[i].Armed = "TRUE"
         /\ pre[i].ATHUnrealizedPct > 0
         /\ pre[i].CostBasis # Blank

\* C6: while a cycle runs, and when it has run, every row that was CLOSED or
\* CLOSED_EXTERNAL at its start and whose asset is absent from the cycle's
\* holdings is cell for cell what it was at the start, LastUpdated and Status
\* included.
C6_ClosedAbsentUntouched ==
    pc \in {"assets", "missing", "done"}
    => \A i \in Rows(pre) :
         (StatusOf(pre[i]) \in ClosedStatuses /\ pre[i].Asset \notin DOMAIN holdings)
         => /\ i \in Rows(sheet)
            /\ sheet[i] = pre[i]

\* a cycle has run over a CLOSED row whose asset is not held, and wrote another
C6_Witness ==
    /\ CycleDone
    /\ sheet # pre
    /\ \E i \in Rows(pre) :
         /\ pre[i].Status = "CLOSED"
         /\ pre[i].Asset \notin DOMAIN holdings

\* C7: a pass of the first loop over a held asset with a fetched price whose row
\* was CLOSED or CLOSED_EXTERNAL evaluates from CostBasis = the price, ATH = 0,
\* Armed = false and a cleared RealizedPct, whatever the row held, and writes to
\* the same row under the same asset key without adding a row.
C7_ReactivationStartsFresh ==
    Processed
    => \A i \in RowsOf(pre, ev.asset) :
         StatusOf(pre[i]) \in ClosedStatuses
         => /\ ev.cost_basis = ev.price
            /\ ev.ath_in = 0
            /\ ~ev.armed_in
            /\ ev.unreal = 0
            /\ ev.row = i + 1
            /\ RowsOf(sheet, ev.asset) = {i}
            /\ sheet[i].KrakenAssetCode = pre[i].KrakenAssetCode
            /\ sheet[i].CostBasis = <<ev.price>>
            /\ sheet[i].ATHUnrealizedPct = 0
            /\ sheet[i].Armed = "FALSE"
            /\ sheet[i].RealizedPct = Blank
            /\ sheet[i].Status = "ACTIVE"

\* the reactivation of a CLOSED row that held Armed = TRUE, a positive ATH and a
\* realized percentage
C7_Witness ==
    /\ Processed
    /\ \E i \in RowsOf(pre, ev.asset) :
         /\ pre[i].Status = "CLOSED"
         /\ pre[i].Armed = "TRUE"
         /\ pre[i].ATHUnrealizedPct > 0
         /\ pre[i].RealizedPct # Blank

\* C8: with the default thresholds, the pass of the first loop over a held asset
\* with a fetched price p and no row appends one row, the only one of the asset,
\* with CostBasis = p, UnrealizedPct = 0, ATHUnrealizedPct = 0, Armed = FALSE,
\* Status = ACTIVE and a blank RealizedPct, and requests no sell; when the cycle
\* has run the asset still has exactly one row.
C8_NewAssetAppendsOneRecord ==
    /\ (Processed /\ RowsOf(pre, ev.asset) = {} /\ DefaultThresholds(cfg))
       => /\ ev.row = 0
          /\ RowsOf(sheet, ev.asset) = {Len(sheet)}
          /\ Len(sheet) > Len(pre)
          /\ EvRow.CostBasis = <<ev.price>>
          /\ EvRow.CurrentPrice = ev.price
          /\ EvRow.UnrealizedPct = 0
          /\ EvRow.ATHUnrealizedPct = 0
          /\ EvRow.Armed = "FALSE"
          /\ EvRow.Status = "ACTIVE"
          /\ EvRow.RealizedPct = Blank
          /\ EvRow.PositionSize = holdings[ev.asset].balance
          /\ ev.reason = ""
          /\ ev.sold = ""
          /\ SellsOf(ev.asset) = {}
    /\ (CycleDone /\ DefaultThresholds(cfg))
       => \A a \in DOMAIN holdings :
            (RowsOf(pre, a) = {} /\ ~FetchFailed(a))
            => /\ Cardinality(RowsOf(sheet, a)) = 1
               /\ SellsOf(a) = {}

\* a new asset has been appended below the rows of other assets
C8_Witness ==
    /\ Processed
    /\ RowsOf(pre, ev.asset) = {}
    /\ DefaultThresholds(cfg)
    /\ pre # <<>>
    /\ ev.price > 0

\* C9: when a cycle has run, a held asset whose price fetch failed has the rows
\* it had at the start, cell for cell, and no other, and no sell was requested
\* for it; and every other held asset had its price asked for and, when it was
\* fetched, its row written in this cycle with that price.
C9_FetchFailureIsIsolated ==
    CycleDone
    => \A a \in DOMAIN holdings :
         (a \in DOMAIN fetched /\ FetchFailed(a))
         => /\ RowsOf(sheet, a) = RowsOf(pre, a)
            /\ \A i \in RowsOf(pre, a) : sheet[i] = pre[i]
            /\ SellsOf(a) = {}
            /\ \A b \in DOMAIN holdings \ {a} :
                 /\ b \in DOMAIN fetched
                 /\ ~FetchFailed(b)
                    => \E i \in RowsOf(sheet, b) :
                         /\ sheet[i].LastUpdated = clock
                         /\ sheet[i].CurrentPrice = fetched[b].price

\* the fetch failed for an asset with an ACTIVE row, ahead of another held
\* asset whose price was fetched
C9_Witness ==
    /\ CycleDone
    /\ \E a \in DOMAIN holdings, b \in DOMAIN holdings :
         /\ a # b
         /\ FetchFailed(a)
         /\ ~FetchFailed(b)
         /\ \E i \in RowsOf(pre, a) : pre[i].Status = "ACTIVE"
         /\ \E i \in RowsOf(sheet, b) : sheet[i].LastUpdated = clock

\* the cycle that has run is the second of two dry-run cycles in a row with the
\* same holdings and the same answers to the price requests
SecondOfTwoAlike ==
    /\ CycleDone
    /\ cfg.dry_run
    /\ last.valid
    /\ last.hold = holdings
    /\ last.px = fetched

\* C10 as stated: the second of two such cycles leaves every row as the first
\* left it, LastUpdated aside, whatever the first cycle decided.
C10_TwoCyclesAlike ==
    SecondOfTwoAlike => Undated(sheet) = Undated(pre)

\* C10 as amended: the second of two such cycles leaves every row as the first
\* left it, LastUpdated aside, when neither cycle requested a sell.
C10_TwoQuietCyclesAlike ==
    (SecondOfTwoAlike /\ last.quiet /\ sells = <<>>)
    => Undated(sheet) = Undated(pre)

\* two quiet cycles in a row over an ACTIVE row away from its cost basis
C10_Witness ==
    /\ SecondOfTwoAlike
    /\ last.quiet
    /\ sells = <<>>
    /\ \E i \in Rows(sheet) :
         /\ sheet[i].Status = "ACTIVE"
         /\ sheet[i].UnrealizedPct # 0
         /\ sheet[i].LastUpdated = clock

\* C11: run_forever is never ended by an exception of its own (only the stop
\* signal ends it), and a cycle whose balance fetch or ledger read raises writes
\* no row, requests no sell and leaves run_forever sleeping before another cycle.
C11_OnlyTheSignalEnds ==
    /\ [](pc # "crashed")
    /\ [][ev'.kind = "abandoned"
            => (sheet' = sheet /\ sells' = <<>> /\ pc' = "idle")]_vars

\* C12: the process never stops at a point where the exchange has accepted a
\* sell order for an asset whose new row has not been written.
C12_NeverStopsMidTransition ==
    pc = "stopped"
    => ~(ev.kind = "asset" /\ ev.sold = "ok" /\ ev.store # "ok" /\ ~cfg.dry_run)

\* C13: a pass over a position that is not armed raises STOP_LOSS exactly when
\* the unrealized percent is <= STOP_LOSS_PCT + FEE_BUFFER_PCT and raises no
\* other reason; when it does not, it arms exactly when the unrealized percent
\* is >= ARM_THRESHOLD_PCT + FEE_BUFFER_PCT; and a pass that arms requests no
\* sell.
C13_UnarmedStopsOrArms ==
    (Processed /\ ~ev.armed_in)
    => /\ (ev.reason = "STOP_LOSS")
          <=> (ev.unreal <= cfg.STOP_LOSS_PCT + FEE_BUFFER_PCT)
       /\ ev.reason \in {"", "STOP_LOSS"}
       /\ ev.reason = ""
          => (ev.armed <=> (ev.unreal >= cfg.ARM_THRESHOLD_PCT + FEE_BUFFER_PCT))
       /\ ev.armed => (ev.reason = "" /\ ev.sold = "" /\ SellsOf(ev.asset) = {})
       /\ (ev.armed /\ EvRow.Status = "ACTIVE") => EvRow.Armed = "TRUE"

\* an unarmed position exactly on the stop trigger has raised STOP_LOSS
C13_Witness ==
    /\ Processed
    /\ ~ev.armed_in
    /\ ev.unreal = cfg.STOP_LOSS_PCT + FEE_BUFFER_PCT
    /\ ev.reason = "STOP_LOSS"

\* C14: a pass over a position that is armed when the cycle starts raises
\* TRAILING_TAKE_PROFIT exactly when the updated ATH minus the unrealized
\* percent is >= TRAILING_DROP_PCT + FEE_BUFFER_PCT, raises no other reason and
\* so never STOP_LOSS, and requests at most one sell for the asset.
C14_ArmedTrailsOnly ==
    (Processed /\ ev.armed_in)
    => /\ ev.ath = Max(ev.ath_in, ev.unreal)
       /\ (ev.reason = "TRAILING_TAKE_PROFIT")
          <=> (ev.ath - ev.unreal >= cfg.TRAILING_DROP_PCT + FEE_BUFFER_PCT)
       /\ ev.reason \in {"", "TRAILING_TAKE_PROFIT"}
       /\ Cardinality(SellsOf(ev.asset)) <= 1
       /\ \A k \in SellsOf(ev.asset) : sells[k].reason = ev.reason

\* an armed position exactly on the trailing trigger has raised the take-profit
C14_Witness ==
    /\ Processed
    /\ ev.armed_in
    /\ ev.ath - ev.unreal = cfg.TRAILING_DROP_PCT + FEE_BUFFER_PCT
    /\ ev.reason = "TRAILING_TAKE_PROFIT"

\* C15: the sells requested in a cycle are for different assets, each held with
\* a positive quantity in this cycle, with a fetched price and a close reason,
\* and each for the full held quantity; none is for an asset that is not held.
C15_SellsOnlyWhatIsHeld ==
    \A k \in 1..Len(sells) :
      /\ sells[k].asset \in DOMAIN holdings
      /\ holdings[sells[k].asset].balance > 0
      /\ sells[k].volume = holdings[sells[k].asset].balance
      /\ sells[k].reason \in {"STOP_LOSS", "TRAILING_TAKE_PROFIT"}
      /\ sells[k].asset \in DOMAIN fetched
      /\ ~FetchFailed(sells[k].asset)
      /\ \A j \in 1..Len(sells) : sells[j].asset = sells[k].asset => j = k

\* a cycle has run that requested a sell while the ledger holds a row of an
\* asset that is not held
C15_Witness ==
    /\ CycleDone
    /\ sells # <<>>
    /\ \E i \in Rows(pre) : pre[i].Asset \notin DOMAIN holdings

\* C16: the worksheet never holds two rows of one asset; no step removes a row
\* or changes the asset of a row; a step adds at most one row, and only for an
\* asset that had none; and a pass over an asset that has a row writes that row
\* and no other.
C16_OneRowPerAsset ==
    /\ [](\A i \in Rows(sheet), j \in Rows(sheet) :
            sheet[i].Asset = sheet[j].Asset => i = j)
    /\ [][
           /\ Len(sheet') >= Len(sheet)
           /\ \A i \in Rows(sheet) : sheet'[i].Asset = sheet[i].Asset
           /\ Len(sheet') > Len(sheet)
              => /\ Len(sheet') = Len(sheet) + 1
                 /\ RowsOf(sheet, sheet'[Len(sheet')].Asset) = {}
                 /\ \A i \in Rows(sheet) : sheet'[i] = sheet[i]
           /\ (ev'.kind = "asset" /\ ev'.store = "ok"
                 /\ RowsOf(sheet, ev'.asset) # {})
              => /\ Len(sheet') = Len(sheet)
                 /\ RowsOf(sheet, ev'.asset) = {ev'.row - 1}
                 /\ \A i \in Rows(sheet) \ {ev'.row - 1} : sheet'[i] = sheet[i]
                 /\ sheet'[ev'.row - 1].LastUpdated = clock']_vars

\* the second of two rows has been updated in place
C16_Witness ==
    /\ Processed
    /\ Len(sheet) = 2
    /\ Len(pre) = 2
    /\ ev.row = 3
    /\ sheet[2] # pre[2]
    /\ sheet[1] = pre[1]

\* what C17 asks of a row
WellFormed(rec) ==
    /\ rec.Status \in STATUSES
    /\ rec.Status \in ClosedStatuses
       => (rec.PositionSize = 0 /\ rec.UnrealizedPct = 0 /\ rec.CostBasis = Blank)
    /\ rec.Status = "ACTIVE" => rec.CostBasis # Blank

\* C17: every row a step of the bot writes has PositionSize = 0, UnrealizedPct = 0
\* and a blank CostBasis when it is CLOSED or CLOSED_EXTERNAL, and a CostBasis
\* when it is ACTIVE; the step blanks a CostBasis only of an ACTIVE row that it
\* closes; and a row that it creates, or brings back from a closed status, as
\* ACTIVE has the price of the cycle as its CostBasis.
C17_CostBasisFollowsStatus ==
    [][(ev'.kind \in {"asset", "external"} /\ ev'.store = "ok")
         => \A i \in Rows(sheet') :
              (i \notin Rows(sheet) \/ sheet'[i] # sheet[i])
              => /\ WellFormed(sheet'[i])
                 /\ (/\ i \in Rows(sheet)
                     /\ sheet[i].CostBasis # Blank
                     /\ sheet'[i].CostBasis = Blank)
                    => (/\ StatusOf(sheet[i]) = "ACTIVE"
                        /\ sheet'[i].Status \in ClosedStatuses)
                 /\ (/\ sheet'[i].Status = "ACTIVE"
                     /\ (i \in Rows(sheet) => sheet[i].Status \in ClosedStatuses))
                    => (/\ sheet'[i].CostBasis = <<ev'.price>>
                        /\ sheet'[i].CurrentPrice = ev'.price)]_vars

\* the second loop has closed a row that had a CostBasis
C17_Witness ==
    /\ ev.kind = "external"
    /\ ev.store = "ok"
    /\ \E i \in RowsOf(pre, ev.asset) :
         /\ pre[i].CostBasis # Blank
         /\ sheet[i].CostBasis = Blank
         /\ sheet[i].Status = "CLOSED_EXTERNAL"

\* C18: a pass over an ACTIVE row with a CostBasis evaluates from it and, when
\* the row stays ACTIVE, writes it back as it was; a pass over an ACTIVE row
\* with a blank CostBasis evaluates from the price and from the ATH and Armed
\* of the row and, when the row stays ACTIVE, writes the price as its CostBasis,
\* an ATH not below the one it had, and Armed = TRUE if it was.
C18_CostBasisCarriedOrInitialized ==
    Processed
    => \A i \in RowsOf(pre, ev.asset) :
         StatusOf(pre[i]) = "ACTIVE"
         => IF pre[i].CostBasis # Blank
            THEN /\ ev.cost_basis = pre[i].CostBasis[1]
                 /\ sheet[i].Status = "ACTIVE"
                    => sheet[i].CostBasis = pre[i].CostBasis
            ELSE /\ ev.cost_basis = ev.price
                 /\ ev.ath_in = pre[i].ATHUnrealizedPct
                 /\ ev.armed_in = (pre[i].Armed = "TRUE")
                 /\ sheet[i].Status = "ACTIVE"
                    => /\ sheet[i].CostBasis = <<ev.price>>
                       /\ sheet[i].ATHUnrealizedPct >= pre[i].ATHUnrealizedPct
                       /\ pre[i].Armed = "TRUE" => sheet[i].Armed = "TRUE"

\* an armed ACTIVE row with a positive ATH and a blank CostBasis has been
\* processed and is still ACTIVE
C18_Witness ==
    /\ Processed
    /\ \E i \in RowsOf(pre, ev.asset) :
         /\ pre[i].Status = "ACTIVE"
         /\ pre[i].CostBasis = Blank
         /\ pre[i].Armed = "TRUE"
         /\ pre[i].ATHUnrealizedPct > 0
         /\ sheet[i].Status = "ACTIVE"

\* the close condition of an ACTIVE row with a CostBasis at a price, from the
\* triggers: the trailing drop from the updated ATH when the row is armed, the
\* stop when it is not
CloseCondition(rec, price) ==
    LET u == UnrealPct(price, rec.CostBasis[1])
    IN  IF rec.Armed = "TRUE"
        THEN Max(rec.ATHUnrealizedPct, u) - u >= cfg.TRAILING_DROP_PCT + FEE_BUFFER_PCT
        ELSE u <= cfg.STOP_LOSS_PCT + FEE_BUFFER_PCT

\* a pass over an ACTIVE row requests a sell exactly when the close condition
\* holds at the price of the cycle, and so does again at the price at which the
\* sell failed in the cycle before
C19_RetriedWhileConditionHolds ==
    Processed
    => \A i \in RowsOf(pre, ev.asset) :
         (StatusOf(pre[i]) = "ACTIVE" /\ pre[i].CostBasis # Blank)
         => /\ (ev.sold # "") <=> CloseCondition(pre[i], ev.price)
            /\ (/\ last.valid
                /\ ev.asset \in last.failed
                /\ last.px[ev.asset].price = ev.price)
               => ev.sold # ""

\* an asset whose sell failed in the cycle before is asked again at that price
C19_Retried ==
    /\ Processed
    /\ last.valid
    /\ ev.asset \in last.failed
    /\ last.px[ev.asset].price = ev.price
    /\ ev.sold # ""

\* C19: after a failed sell the sell is requested again exactly when the close
\* condition holds at the price of the cycle, so every cycle at an unchanged
\* price; and once the exchange has accepted the order the row of the asset is
\* CLOSED.
C19_RetriedUntilClosed ==
    /\ C19_RetriedWhileConditionHolds
    /\ (ev.kind = "asset" /\ ev.sold = "ok" /\ ~cfg.dry_run)
       => \E i \in RowsOf(sheet, ev.asset) : sheet[i].Status = "CLOSED"

\* C20: no row is CLOSED_EXTERNAL for an asset that the bot itself sold (the
\* exchange accepted its order and the asset has not been held since).
C20_BotSoldIsNeverExternal ==
    \A i \in Rows(sheet) :
      sheet[i].Status = "CLOSED_EXTERNAL" => sheet[i].Asset \notin botsold

\* C21: with the stop trigger below the arm trigger, every row of the worksheet
\* has Armed = TRUE exactly when its ATHUnrealizedPct is >= ARM_THRESHOLD_PCT +
\* FEE_BUFFER_PCT.
C21_ArmedIffAthAtTrigger ==
    cfg.STOP_LOSS_PCT < cfg.ARM_THRESHOLD_PCT
    => \A i \in Rows(sheet) :
         (sheet[i].Armed = "TRUE")
         <=> (sheet[i].ATHUnrealizedPct >= cfg.ARM_THRESHOLD_PCT + FEE_BUFFER_PCT)

====
